---------------------------- MODULE Spec2Model ----------------------------
(***************************************************************************)
(* The key-number store of scripts/tools.py: update_key_number(path,       *)
(* new_dict) bootstraps key_numbers.json when it is absent, reads it with  *)
(* json.load, assigns every key of new_dict into the loaded value and      *)
(* writes the result back with json.dump(indent=4).                        *)
(*                                                                         *)
(* The file is modelled as an existence flag and a sequence of lexical     *)
(* tokens (its text); json.dump and json.load are modelled by what they    *)
(* do on tokens.  One call is a sequence of steps named after the source   *)
(* lines they model (L34 .. L45), so that two processes can interleave.    *)
(***************************************************************************)
EXTENDS Integers, Sequences, FiniteSets, TLC

\* ------------------------------------------------------------------ bounds

\* Number of calls of update_key_number in one behaviour when the
\* pipelines are run one at a time.
MaxCalls == 3

\* Number of calls in one behaviour of two unserialized processes.
MaxConcCalls == 2

\* A flush of the write buffer before the dump is complete lands within
\* the first MaxFlush tokens of the output.
MaxFlush == 2

\* Significant bits of a float in the model (a double of the build has 53).
Precision == 6

\* Number of runs of a main block in one behaviour.
MaxRuns == 4

\* Number of lines of a shipment table.
MaxRows == 3

\* indent=4 of the final json.dump (tools.py line 45)
Indent == 4

\* json.dump({}, f) at line 36 passes no indent (None)
NoIndent == 0

Keys == {"a", "b"}

\* A value of a dict: a Python str, or a number (a float a producer
\* passed without formatting it; n stands for its numeral).
PyStr(s) == [ty |-> "str", s |-> s, n |-> 0]

PyNum(n) == [ty |-> "float", s |-> "", n |-> n]

\* the formatted values the callers pass
Values == {PyStr("10%"), PyStr("12%")}

Procs == {1, 2}

\* ------------------------------------------------------------------ tokens

Tok(k, s, n) == [k |-> k, s |-> s, n |-> n]

LB == Tok("{", "", 0)

RB == Tok("}", "", 0)

LSQ == Tok("[", "", 0)

RSQ == Tok("]", "", 0)

COLON == Tok(":", "", 0)

COMMA == Tok(",", "", 0)

\* one blank
SP == Tok("ws", " ", 0)

\* a newline followed by n blanks
NL(n) == Tok("ws", "\n", n)

STR(s) == Tok("str", s, 0)

NUM(n) == Tok("num", "", n)

\* the byte of a hole left by a write past the end of the file
NUL == Tok("nul", "", 0)

NoTok == Tok("none", "", 0)

\* ------------------------------------------------------------------ values

\* A Python value as json.load builds it.  A dict keeps its insertion
\* order: items is the sequence of <<key, value>> pairs, keys distinct.
DictOf(items) == [ty |-> "dict", items |-> items, lit |-> NoTok]

EmptyDict == DictOf(<<>>)

EmptyList == [ty |-> "list", items |-> <<>>, lit |-> NoTok]

Scalar(tok) == [ty |-> "scalar", items |-> <<>>, lit |-> tok]

\* json.JSONDecodeError
DecodeError == [ty |-> "error", items |-> <<>>, lit |-> NoTok]

KeySeq(items) == [i \in 1..Len(items) |-> items[i][1]]

KeySet(items) == {items[i][1] : i \in 1..Len(items)}

HasKey(items, k) == \E i \in 1..Len(items) : items[i][1] = k

\* the mapping an ordered dict denotes
AsMap(items) ==
  [k \in KeySet(items) |->
     items[CHOOSE i \in 1..Len(items) : items[i][1] = k][2]]

\* ------------------------------------------------------------------ json

\* SetItem that never finds the key: every assignment adds an item.
SetItemAppend(items, k, v) == Append(items, <<k, v>>)

\* SetItem as dict.setdefault would do it: an existing key keeps its value.
SetItemKeepOld(items, k, v) ==
  IF HasKey(items, k) THEN items ELSE Append(items, <<k, v>>)

\* dict.__setitem__: an existing key keeps its place and takes the new
\* value, a new key goes to the end.
SetItem(items, k, v) ==
  IF HasKey(items, k)
    THEN [i \in 1..Len(items) |->
            IF items[i][1] = k THEN <<k, v>> ELSE items[i]]
    ELSE Append(items, <<k, v>>)

\* the literal json.dump writes for a value: a string literal for a str,
\* a number literal for a number
ValueTok(v) == IF v.ty = "str" THEN STR(v.s) ELSE NUM(v.n)

\* the value json.load builds from a literal
ValueOf(t) == IF t.k = "str" THEN PyStr(t.s) ELSE PyNum(t.n)

\* one "key": value member as json.dump writes it (key separator ": ")
Member(kv) == <<STR(kv[1]), COLON, SP, ValueTok(kv[2])>>

\* The members of a non-empty dict.  With an indent every member is put
\* on a line of its own and the item separator is ","; with none the item
\* separator is ", ".
RECURSIVE DumpMembers(_, _, _)
DumpMembers(items, i, indent) ==
  IF i > Len(items) THEN <<>>
  ELSE (IF indent = NoIndent
          THEN (IF i = 1 THEN <<>> ELSE <<COMMA, SP>>)
          ELSE (IF i = 1 THEN <<NL(indent)>> ELSE <<COMMA, NL(indent)>>))
       \o Member(items[i])
       \o DumpMembers(items, i + 1, indent)

\* a serializer that writes the item separator after the last member too
DumpsTrailingComma(obj, indent) ==
  CASE obj.ty = "dict" ->
         IF obj.items = <<>> THEN <<LB, RB>>
         ELSE <<LB>> \o DumpMembers(obj.items, 1, indent) \o <<COMMA>>
                     \o (IF indent = NoIndent THEN <<RB>> ELSE <<NL(0), RB>>)
    [] obj.ty = "list" -> <<LSQ, RSQ>>
    [] OTHER -> <<obj.lit>>

\* json.dump(obj, f, indent=indent, sort_keys=True)
DumpsSorted(obj, indent) ==
  LET ks == SelectSeq(<<"a", "b">>, LAMBDA k : HasKey(obj.items, k))
      sorted == [i \in 1..Len(ks) |-> <<ks[i], AsMap(obj.items)[ks[i]]>>]
  IN CASE obj.ty = "dict" ->
            IF obj.items = <<>> THEN <<LB, RB>>
            ELSE <<LB>> \o DumpMembers(sorted, 1, indent)
                        \o (IF indent = NoIndent THEN <<RB>> ELSE <<NL(0), RB>>)
       [] obj.ty = "list" -> <<LSQ, RSQ>>
       [] OTHER -> <<obj.lit>>

\* json.dump(obj, f, indent=indent): the text written for obj
Dumps(obj, indent) ==
  CASE obj.ty = "dict" ->
         IF obj.items = <<>> THEN <<LB, RB>>
         ELSE <<LB>> \o DumpMembers(obj.items, 1, indent)
                     \o (IF indent = NoIndent THEN <<RB>> ELSE <<NL(0), RB>>)
    [] obj.ty = "list" -> <<LSQ, RSQ>>
    [] OTHER -> <<obj.lit>>

IsWS(t) == t.k = "ws"

NotWS(t) == ~IsWS(t)

\* The members of an object from token i on, acc the dict built so far.
\* A repeated key keeps its first place and takes the last value, as the
\* dict built by json.load does.
RECURSIVE ParseMembers(_, _, _)
ParseMembers(t, i, acc) ==
  IF i + 3 > Len(t) THEN DecodeError
  ELSE IF t[i].k # "str" \/ t[i + 1] # COLON
            \/ t[i + 2].k \notin {"str", "num"}
    THEN DecodeError
  ELSE LET acc2 == SetItem(acc, t[i].s, ValueOf(t[i + 2])) IN
       IF t[i + 3] = RB
         THEN (IF i + 3 = Len(t) THEN DictOf(acc2) ELSE DecodeError)
       ELSE IF t[i + 3] = COMMA THEN ParseMembers(t, i + 4, acc2)
       ELSE DecodeError

\* json.load(f): the value the text denotes, or DecodeError
Loads(text) ==
  LET t == SelectSeq(text, NotWS) IN
    IF t = <<>> THEN DecodeError
    ELSE IF Len(t) = 1 /\ t[1].k \in {"num", "str"} THEN Scalar(t[1])
    ELSE IF t = <<LSQ, RSQ>> THEN EmptyList
    ELSE IF t = <<LB, RB>> THEN EmptyDict
    ELSE IF t[1] = LB THEN ParseMembers(t, 2, <<>>)
    ELSE DecodeError

\* TypeError raised by data[k] = ... when data is not a dict
TypeError == [ty |-> "typeerror", items |-> <<>>, lit |-> NoTok]

\* lines 41-42: for k in new_dict.keys(): data[k] = new_dict[k]
RECURSIVE UpdateFrom(_, _, _)
UpdateFrom(d, upd, i) ==
  IF i > Len(upd) THEN d
  ELSE IF d.ty # "dict" THEN TypeError
  ELSE UpdateFrom(DictOf(SetItem(d.items, upd[i][1], upd[i][2])), upd, i + 1)

\* the loop run on a fresh dict: data = dict(new_dict)
UpdateReplace(d, upd) ==
  UpdateFrom(IF d.ty = "dict" THEN EmptyDict ELSE d, upd, 1)

Update(d, upd) == UpdateFrom(d, upd, 1)

\* ------------------------------------------------------------------ floats

RECURSIVE Pow2(_)
Pow2(k) == IF k = 0 THEN 1 ELSE 2 * Pow2(k - 1)

RECURSIVE Pow10(_)
Pow10(k) == IF k = 0 THEN 1 ELSE 10 * Pow10(k - 1)

\* A float that is not negative: the exact quotient n / d of a finite
\* one, or inf, or nan.
Fin(n, d) == [k |-> "fin", n |-> n, d |-> d]

NaN == [k |-> "nan", n |-> 0, d |-> 1]

Inf == [k |-> "inf", n |-> 0, d |-> 1]

Zero == Fin(0, 1)

One == Fin(1, 1)

\* an int of the source or of the input data, converted exactly
Float(i) == Fin(i, 1)

\* a / b in lowest terms of two
RECURSIVE Canon(_, _)
Canon(a, b) ==
  IF a = 0 THEN Zero
  ELSE IF b > 1 /\ a % 2 = 0 THEN Canon(a \div 2, b \div 2)
  ELSE Fin(a, b)

\* a / b rounded to the nearest integer, ties to even
RoundHalfEven(a, b) ==
  LET q == a \div b
      r == a % b
  IN IF 2 * r > b \/ (2 * r = b /\ q % 2 = 1) THEN q + 1 ELSE q

\* (a / b) * 2^j / 2^k rounded to Precision significant bits
RECURSIVE RoundTo(_, _, _, _)
RoundTo(a, b, k, j) ==
  IF a < b * Pow2(Precision - 1) THEN RoundTo(2 * a, b, k + 1, j)
  ELSE IF a >= b * Pow2(Precision) THEN RoundTo(a, 2 * b, k, j + 1)
  ELSE Canon(RoundHalfEven(a, b) * Pow2(j), Pow2(k))

\* the float nearest to a / b (a >= 0, b > 0)
Round(a, b) == IF a = 0 THEN Zero ELSE RoundTo(a, b, 0, 0)

\* x + y of two finite floats
FAdd(x, y) == Round(x.n * y.d + y.n * x.d, x.d * y.d)

\* x - y of finite floats with x >= y; nan if either is nan
FSub(x, y) ==
  IF x.k = "nan" \/ y.k = "nan" THEN NaN
  ELSE Round(x.n * y.d - y.n * x.d, x.d * y.d)

\* x * y
FMul(x, y) ==
  IF x.k = "nan" \/ y.k = "nan" THEN NaN
  ELSE IF x.k = "inf" \/ y.k = "inf" THEN Inf
  ELSE Round(x.n * y.n, x.d * y.d)

\* x / y of numpy floats: a zero divisor gives inf, or nan for 0 / 0
FDiv(x, y) ==
  IF x.k = "nan" \/ y.k = "nan" THEN NaN
  ELSE IF x.k = "inf" THEN (IF y.k = "inf" THEN NaN ELSE Inf)
  ELSE IF y.k = "inf" THEN Zero
  ELSE IF y.n = 0 THEN (IF x.n = 0 THEN NaN ELSE Inf)
  ELSE Round(x.n * y.d, x.d * y.n)

\* ------------------------------------------------------------------ format

\* the w low decimal digits of i, with leading zeros
RECURSIVE Digits(_, _)
Digits(i, w) ==
  IF w = 0 THEN "" ELSE Digits(i \div 10, w - 1) \o ToString(i % 10)

\* the "," option: groups of three digits
RECURSIVE Grouped(_)
Grouped(i) ==
  IF i < 1000 THEN ToString(i)
  ELSE Grouped(i \div 1000) \o "," \o Digits(i % 1000, 3)

\* format(x, ".{digits}f"), or ",.{digits}f" when sep
Fixed(x, digits, sep) ==
  IF x.k # "fin" THEN x.k
  ELSE LET s == RoundHalfEven(x.n * Pow10(digits), x.d)
           ip == s \div Pow10(digits)
       IN (IF sep THEN Grouped(ip) ELSE ToString(ip))
          \o (IF digits > 0 THEN "." \o Digits(s % Pow10(digits), digits)
              ELSE "")

\* format(x, ".{digits}%"): x times 100, in fixed notation, then "%"
Percent(x, digits) == Fixed(FMul(x, Float(100)), digits, FALSE) \o "%"

\* ------------------------------------------------------------------ frames

\* df[col].sum(): the floats are added in row order, NaN skipped
RECURSIVE SumFrom(_, _, _, _)
SumFrom(df, col, i, acc) ==
  IF i > Len(df) THEN acc
  ELSE SumFrom(df, col, i + 1,
               IF df[i][col].k = "nan" THEN acc ELSE FAdd(acc, df[i][col]))

Sum(df, col) == SumFrom(df, col, 1, Zero)

\* --------------------------------------------------------- vaccine demand

last_year_measured == 2024

ProjectionYear == 2030

\* What vaccine_dose_demand_by_country_year_pipeline leaves of the
\* almanac's yearly totals: the share of Africa in the total, in the
\* column of the projections from last_year_measured on.
vaccine_dose_demand_by_country_year_pipeline(df) ==
  [i \in 1..Len(df) |->
     [year |-> df[i].year,
      Africa_share_projected |->
        IF df[i].year >= last_year_measured
          THEN FDiv(Float(df[i].Africa), Float(df[i].Total))
          ELSE NaN]]

\* the value of the single row of a frame
Item(df) == df[1]

\* the indicator passed as a number, with no formatting
vaccine_demand_key_numbers_raw(df) ==
  LET africa_demand_2030 ==
        Item(SelectSeq(df, LAMBDA r : r.year = ProjectionYear))
          .Africa_share_projected
  IN << <<"africa_share_of_global_vaccine_demand_2030",
          PyNum(africa_demand_2030.n)>> >>

\* key_numbers of vaccine_demand_key_numbers
vaccine_demand_key_numbers(df) ==
  LET africa_demand_2030 ==
        Item(SelectSeq(df, LAMBDA r : r.year = ProjectionYear))
          .Africa_share_projected
  IN << <<"africa_share_of_global_vaccine_demand_2030",
          PyStr(Percent(africa_demand_2030, 1))>> >>

\* ------------------------------------------------------------ gavi supply

non_vaccines ==
  {"AD-Syringe, 0.5 ml", "AD-Syringe, 0.1 ml", "RUP-2.0 ml", "RUP-5.0 ml",
   "Safety Box, 5 Litre"}

countries ==
  {"Sao Tome & Principe", "Nigeria", "Kenya", "Ghana", "Djibouti",
   "Cote d'Ivoire"}

\* the countries of the input tables, in the order groupby sorts them
SortedCountries == <<"Ghana", "India", "Kenya", "Nigeria">>

\* no line is removed
remove_nothing(df) == df

remove_non_vaccines(df) ==
  SelectSeq(df, LAMBDA r : r.product \notin non_vaccines)

\* co-financed lines are kept too
AnyFunding(df) == df

\* data.loc[lambda d: d.gavi_non_gavi == "GAVI"]
FullyGaviFunded(df) == SelectSeq(df, LAMBDA r : r.gavi_non_gavi = "GAVI")

\* data.groupby(["country"])["total_quantity_in_doses"].sum().reset_index():
\* one row per country of the frame, the countries sorted
GroupByCountry(df) ==
  LET present ==
        SelectSeq(SortedCountries,
                  LAMBDA c : \E i \in 1..Len(df) : df[i].country = c)
  IN [g \in 1..Len(present) |->
        [country |-> present[g],
         total_quantity_in_doses |->
           Sum(SelectSeq(df, LAMBDA r : r.country = present[g]),
               "total_quantity_in_doses")]]

add_share_of_total_column(df) ==
  LET total == Sum(df, "total_quantity_in_doses")
  IN [i \in 1..Len(df) |->
        [country |-> df[i].country,
         total_quantity_in_doses |-> df[i].total_quantity_in_doses,
         total_quantity_in_doses_share_of_total |->
           FDiv(df[i].total_quantity_in_doses, total)]]

filter_for_six_transitioning_countries(df) ==
  SelectSeq(df, LAMBDA r : r.country \in countries)

\* the doses of the scraped table, which load_gavi_data made floats
AsFloats(df) ==
  [i \in 1..Len(df) |->
     [country |-> df[i].country, product |-> df[i].product,
      gavi_non_gavi |-> df[i].gavi_non_gavi,
      total_quantity_in_doses |-> Float(df[i].doses)]]

share_of_gavi_vaccine_supply_to_six_transitioning_countries_pipeline(df) ==
  Sum(filter_for_six_transitioning_countries(
        add_share_of_total_column(
          GroupByCountry(FullyGaviFunded(remove_non_vaccines(df))))),
      "total_quantity_in_doses_share_of_total")

\* the indicator under the name the demand pipeline uses
gavi_supply_key_number_collides(key_number) ==
  << <<"africa_share_of_global_vaccine_demand_2030",
       PyStr(Percent(key_number, 1))>> >>

\* key_numbers of gavi_supply_key_number
gavi_supply_key_number(key_number) ==
  << <<"share_of_gavi_vaccine_supply_for_six_transitioning_countries",
       PyStr(Percent(key_number, 1))>> >>

\* ------------------------------------------------------------- who supply

\* 1e6 doses; the frames count doses in units of 100,000
Million == 10

\* the 1500 (million doses) of fold_increase_required_to_target
Target == 1500

\* df.query("manufacturer_hq == hq")
FromHq(df, hq) == SelectSeq(df, LAMBDA r : r.manufacturer_hq = hq)

\* df.query("manufacturer_hq != hq")
NotFromHq(df, hq) == SelectSeq(df, LAMBDA r : r.manufacturer_hq # hq)

desired_order ==
  <<"Africa", "Asia", "North America", "Europe", "South America", "Oceania">>

\* df.set_index("manufacturer_hq").reindex(order).reset_index(), from the
\* i-th name on (a continent the table lacks becomes a row of NaN, which
\* every sum skips: the row is left out)
RECURSIVE Reindex(_, _, _)
Reindex(df, order, i) ==
  IF i > Len(order) THEN <<>>
  ELSE FromHq(df, order[i]) \o Reindex(df, order, i + 1)

\* What vaccine_supply_pipeline leaves of the continent table in the
\* columns supply_key_numbers reads: the TOTAL row is dropped and the
\* continents are put in the order of the chart.
vaccine_supply_pipeline(df) ==
  Reindex(NotFromHq(df, "TOTAL"), desired_order, 1)

\* df.set_index("manufacturer_hq").astype(float).reset_index()
astype_float(df) ==
  [i \in 1..Len(df) |->
     [manufacturer_hq |-> df[i].manufacturer_hq,
      vaccines_to_world |-> Float(df[i].vaccines_to_world),
      vaccines_to_africa |-> Float(df[i].vaccines_to_africa)]]

\* key_numbers of supply_key_numbers, in the order of the dict display
supply_key_numbers(frame) ==
  LET df == astype_float(frame)
      afr_to_world == Sum(FromHq(df, "Africa"), "vaccines_to_world")
      asia_to_world == Sum(FromHq(df, "Asia"), "vaccines_to_world")
      na_to_world == Sum(FromHq(df, "North America"), "vaccines_to_world")
      eur_to_world == Sum(FromHq(df, "Europe"), "vaccines_to_world")
      afr_prod_share == FDiv(afr_to_world, Sum(df, "vaccines_to_world"))
      asia_prod_share == FDiv(asia_to_world, Sum(df, "vaccines_to_world"))
      na_prod_share == FDiv(na_to_world, Sum(df, "vaccines_to_world"))
      eur_prod_share == FDiv(eur_to_world, Sum(df, "vaccines_to_world"))
      world_to_afr ==
        FDiv(Sum(df, "vaccines_to_africa"), Sum(df, "vaccines_to_world"))
      afr_imported ==
        FDiv(Sum(NotFromHq(df, "Africa"), "vaccines_to_africa"),
             Sum(df, "vaccines_to_africa"))
  IN << <<"africa_vaccine_production_value",
          PyStr(Fixed(FDiv(afr_to_world, Float(Million)), 1, TRUE)
                \o " million")>>,
        <<"africa_vaccine_production_share",
          PyStr(Percent(afr_prod_share, 2))>>,
        <<"asia_vaccine_production_share",
          PyStr(Percent(asia_prod_share, 1))>>,
        <<"na_vaccine_production_share", PyStr(Percent(na_prod_share, 1))>>,
        <<"eur_vaccine_production_share", PyStr(Percent(eur_prod_share, 1))>>,
        <<"fold_increase_required_to_target",
          PyStr(Fixed(FDiv(Float(Target),
                           FDiv(afr_to_world, Float(Million))), 0, TRUE))>>,
        <<"share_of_global_vaccines_delivered_to_africa",
          PyStr(Percent(world_to_afr, 1))>>,
        <<"share_of_vaccines_to_africa_imported",
          PyStr(Percent(afr_imported, 1))>>,
        <<"share_of_vaccines_to_africa_produced_by_africa",
          PyStr(Percent(FSub(One, afr_imported), 1))>> >>

\* ------------------------------------------------------------------ state

VARIABLES
  exists,     \* os.path.exists(path)
  text,       \* the content of the file at path, a sequence of tokens
  pc,         \* pc[p]: the line process p is about to run, or "idle"
  new_dict,   \* new_dict[p]: the argument of p's call, in iteration order
  data,       \* data[p]: the local variable data
  woff,       \* woff[p]: how much of p's output has reached the file
  calls,      \* history: one record per call, in call order
  cur,        \* cur[p]: the index in calls of p's latest call
  init,       \* history: the file before the first call
  overlapped, \* history: some call began while another was running
  stale,      \* history: stale[p]: a write of another process landed
              \*   between p's latest read and p's write
  other,      \* another file of the output folder, not at path
  input,      \* the raw data the pipelines read
  main,       \* the block that is running, or "none"
  line,       \* the statement of it that runs next
  DATA,       \* its variable DATA
  frame,      \* the frame (or the number) its pipeline function returned
  runs,       \* history: one record per run, with the outputs it wrote
  written     \* the exports in the output folder

\* the variables of update_key_number and of its file
uvars ==
  <<exists, text, pc, new_dict, data, woff, calls, cur, init, overlapped, stale,
    other>>

\* the variables of the main blocks
pvars == <<input, main, line, DATA, frame, runs, written>>

vars ==
  <<exists, text, pc, new_dict, data, woff, calls, cur, init, overlapped, stale,
    other, input, main, line, DATA, frame, runs, written>>

hist == <<init, overlapped, stale>>

Pairs == Keys \X Values

\* the dicts over Keys and Values, as sequences of items in insertion order
OrderedDicts ==
  {d \in UNION {[1..n -> Pairs] : n \in 0..Cardinality(Keys)} :
     \A i, j \in 1..Len(d) : d[i][1] = d[j][1] => i = j}

\* The mappings a caller passes as new_dict: the empty one, every
\* single indicator, and two indicators (with different values) in either
\* iteration order.
Updates ==
  {d \in OrderedDicts : Len(d) = 2 => d[1][2] # d[2][2]}

\* The mappings the two unserialized processes pass.
ConcUpdates == {d \in OrderedDicts : Len(d) = 1}

\* Texts that are not JSON: an empty file, a document cut short, a
\* document followed by more text.
InvalidTexts ==
  { <<>>,
    <<LB, NL(Indent), STR("a"), COLON>>,
    <<LB, RB, RB>> }

\* Valid JSON that is not an object.
NonMappingTexts == { <<LSQ, RSQ>>, <<NUM(3)>>, <<STR("10%")>> }

\* Valid JSON objects: as this program writes them, as json.dump writes
\* them without indent, and one written by hand with a repeated key.
InitDicts ==
  { <<>>,
    << <<"a", PyStr("10%")>> >>,
    << <<"b", PyStr("12%")>> >>,
    << <<"a", PyStr("12%")>>, <<"b", PyStr("10%")>> >>,
    << <<"b", PyStr("10%")>>, <<"a", PyStr("10%")>> >> }

MappingTexts ==
  {Dumps(DictOf(d), Indent) : d \in InitDicts}
  \cup { Dumps(DictOf(<< <<"b", PyStr("12%")>>, <<"a", PyStr("10%")>> >>),
               NoIndent),
         <<LB, STR("a"), COLON, STR("10%"), COMMA,
           STR("a"), COLON, STR("12%"), RB>> }

InitTexts == InvalidTexts \cup NonMappingTexts \cup MappingTexts

Absent == [exists |-> FALSE, text |-> <<>>]

File(t) == [exists |-> TRUE, text |-> t]

\* the states path can be in before the first call
InitFiles == {Absent} \cup {File(t) : t \in InitTexts}

ConcInitFiles ==
  { Absent,
    File(<<>>),
    File(Dumps(EmptyDict, NoIndent)),
    File(Dumps(DictOf(<< <<"a", PyStr("10%")>> >>), Indent)) }

\* a file a pipeline exported to the output folder before the call
Exported == File(<<STR("year"), COMMA, STR("Africa_share_projected")>>)

\* ---------------------------------------------------------------- inputs

\* Yearly demand of the almanac, by Africa and in total.
DemandData ==
  { << [year |-> 2024, Africa |-> 3, Total |-> 20],
       [year |-> 2030, Africa |-> 5, Total |-> 20] >>,
    << [year |-> 2023, Africa |-> 1, Total |-> 9],
       [year |-> 2030, Africa |-> 0, Total |-> 0] >> }

Shipment(c, p, g, n) ==
  [country |-> c, product |-> p, gavi_non_gavi |-> g, doses |-> n]

\* Lines of the Gavi shipments table: vaccines and other products, fully
\* funded or co-financed, to transitioning countries and to another one.
ShipmentRows ==
  { Shipment("Ghana", "BCG", "GAVI", 2),
    Shipment("Kenya", "BCG", "GAVI", 4),
    Shipment("Nigeria", "BCG", "GAVI", 1),
    Shipment("Nigeria", "BCG", "GAVI", 0),
    Shipment("India", "BCG", "GAVI", 4),
    Shipment("India", "BCG", "GAVI", 1),
    Shipment("Nigeria", "AD-Syringe, 0.5 ml", "GAVI", 4),
    Shipment("Kenya", "BCG", "Non-GAVI", 2),
    Shipment("India", "Safety Box, 5 Litre", "Non-GAVI", 1) }

\* the shipment tables of up to MaxRows lines
Tables == UNION {[1..n -> ShipmentRows] : n \in 0..MaxRows}

GaviData ==
  { << Shipment("Nigeria", "BCG", "GAVI", 1),
       Shipment("India", "BCG", "GAVI", 4),
       Shipment("Nigeria", "AD-Syringe, 0.5 ml", "GAVI", 4) >>,
    << Shipment("Kenya", "BCG", "Non-GAVI", 2) >> }

Supply(hq, w, a) ==
  [manufacturer_hq |-> hq, vaccines_to_world |-> w, vaccines_to_africa |-> a]

\* The continent table of the WHO workbook, in units of 100,000 doses.
WhoData ==
  { << Supply("Asia", 30, 10), Supply("Europe", 20, 4),
       Supply("North America", 12, 0), Supply("Africa", 2, 2),
       Supply("TOTAL", 64, 16) >>,
    << Supply("Africa", 0, 0), Supply("Asia", 0, 0), Supply("TOTAL", 0, 0) >> }

NoInput == [demand |-> <<>>, gavi |-> <<>>, who |-> <<>>]

\* the raw data of one behaviour: every run reads the same
Inputs ==
  { [demand |-> d, gavi |-> g, who |-> w] :
      d \in DemandData, g \in GaviData, w \in WhoData }

OutputFiles ==
  {"vaccine_demand_by_region_year.csv", "gavi_vaccine_supply.xlsx",
   "african_vaccine_supply.csv"}

NotWritten == [exists |-> FALSE, rows |-> <<>>]

\* no main block has started
NoRun ==
  /\ main = "none"
  /\ line = 0
  /\ DATA = <<>>
  /\ frame = <<>>
  /\ runs = <<>>
  /\ written = [f \in OutputFiles |-> NotWritten]

StartFile(files) ==
  /\ init \in files
  /\ other = Exported
  /\ exists = init.exists
  /\ text = init.text
  /\ pc = [p \in Procs |-> "idle"]
  /\ new_dict = [p \in Procs |-> <<>>]
  /\ data = [p \in Procs |-> EmptyDict]
  /\ woff = [p \in Procs |-> 0]
  /\ calls = <<>>
  /\ cur = [p \in Procs |-> 0]
  /\ overlapped = FALSE
  /\ stale = [p \in Procs |-> FALSE]

\* update_key_number called with no main block around it
StartIn(files) == StartFile(files) /\ NoRun /\ input = NoInput

Init == StartIn(InitFiles)

InitConc == StartIn(ConcInitFiles)

\* ------------------------------------------------------------------ file

\* write(chunk) through a descriptor whose offset is off: the chunk
\* replaces what the file holds from off on; a hole before off reads as NUL
WriteAt(old, off, chunk) ==
  LET padded == IF Len(old) < off
                  THEN old \o [i \in 1..(off - Len(old)) |-> NUL]
                  ELSE old
  IN SubSeq(padded, 1, off) \o chunk
       \o SubSeq(padded, off + Len(chunk) + 1, Len(padded))

\* the final dump given new_dict instead of data: json.dump(new_dict, f)
OutputNewOnly(p) == Dumps(DictOf(new_dict[p]), Indent)

\* the text the final json.dump of process p produces
Output(p) == Dumps(data[p], Indent)

\* the bootstrap creating the file and writing nothing into it
BootOutputNothing == <<>>

\* the text the bootstrap json.dump produces
BootOutput == Dumps(EmptyDict, NoIndent)

\* ------------------------------------------------------------------ steps

Path == "key_numbers.json"

Elsewhere == "vaccine_demand_by_region_year.csv"

\* open(...) given another name than path
OpenedElsewhere(p) == Elsewhere

\* the name the call of p opens for writing at lines 35 and 44: path
Opened(p) == Path

\* the file with the given name
At(name) == IF name = Path THEN [exists |-> exists, text |-> text] ELSE other

\* the file with the given name becomes f, every other file stays
Store(name, f) ==
  IF name = Path
    THEN exists' = f.exists /\ text' = f.text /\ other' = other
    ELSE other' = f /\ exists' = exists /\ text' = text

\* the call returns (None) or raises res to the caller
Return(p, res) ==
  /\ pc' = [pc EXCEPT ![p] = "idle"]
  /\ calls' = [calls EXCEPT ![cur[p]].res = res]
  /\ data' = [data EXCEPT ![p] = EmptyDict]
  /\ woff' = [woff EXCEPT ![p] = 0]

\* update_key_number(path, upd) is called by process p
Call(p, upd) ==
  /\ pc[p] = "idle"
  /\ pc' = [pc EXCEPT ![p] = "L34"]
  /\ new_dict' = [new_dict EXCEPT ![p] = upd]
  /\ calls' = Append(calls, [proc |-> p, upd |-> upd,
                            pre |-> [exists |-> exists, text |-> text],
                            res |-> "running"])
  /\ cur' = [cur EXCEPT ![p] = Len(calls) + 1]
  /\ overlapped' = (overlapped \/ \E q \in Procs \ {p} : pc[q] # "idle")
  /\ UNCHANGED <<exists, text, data, woff, init, stale, other>>

\* the test of line 34 left out the other way: the file is always created
PathExistsNever == FALSE

\* the test of line 34 left out: the file is taken to be there
PathExistsAlways == TRUE

\* line 34: if not os.path.exists(path)
PathExists == exists

L34(p) ==
  /\ pc[p] = "L34"
  /\ UNCHANGED pvars
  /\ pc' = [pc EXCEPT ![p] = IF ~PathExists THEN "L35" ELSE "L38"]
  /\ UNCHANGED <<exists, text, new_dict, data, woff, calls, cur, hist, other>>

\* line 35: open(path, "w") creates the file, or truncates it
L35(p) ==
  /\ pc[p] = "L35"
  /\ UNCHANGED pvars
  /\ Store(Opened(p), File(<<>>))
  /\ woff' = [woff EXCEPT ![p] = 0]
  /\ pc' = [pc EXCEPT ![p] = "L36"]
  /\ UNCHANGED <<new_dict, data, calls, cur, hist>>

\* line 36: json.dump({}, f), and the close that ends the with block
L36(p) ==
  /\ pc[p] = "L36"
  /\ UNCHANGED pvars
  /\ Store(Opened(p),
           File(WriteAt(At(Opened(p)).text, woff[p], BootOutput)))
  /\ pc' = [pc EXCEPT ![p] = "L38"]
  /\ UNCHANGED <<new_dict, data, woff, calls, cur, hist>>

\* lines 38-39: open(path, "r"), data = json.load(f)
L38(p) ==
  /\ pc[p] = "L38"
  /\ UNCHANGED pvars
  /\ LET v == Loads(text) IN
       IF ~exists THEN Return(p, "FileNotFoundError")
       ELSE IF v = DecodeError THEN Return(p, "JSONDecodeError")
       ELSE /\ data' = [data EXCEPT ![p] = v]
            /\ pc' = [pc EXCEPT ![p] = "L41"]
            /\ UNCHANGED <<woff, calls>>
  /\ stale' = [stale EXCEPT ![p] = FALSE]
  /\ UNCHANGED <<exists, text, new_dict, cur, init, overlapped, other>>

\* lines 41-42: the loop over new_dict.keys()
L41(p) ==
  /\ pc[p] = "L41"
  /\ UNCHANGED pvars
  /\ LET v == Update(data[p], new_dict[p]) IN
       IF v = TypeError
         THEN /\ Return(p, "TypeError")
         ELSE /\ data' = [data EXCEPT ![p] = v]
              /\ pc' = [pc EXCEPT ![p] = "L44"]
              /\ UNCHANGED <<woff, calls>>
  /\ UNCHANGED <<exists, text, new_dict, cur, hist, other>>

\* line 44: open(path, "w") truncates the file
L44(p) ==
  /\ pc[p] = "L44"
  /\ UNCHANGED pvars
  /\ Store(Opened(p), File(<<>>))
  /\ woff' = [woff EXCEPT ![p] = 0]
  /\ pc' = [pc EXCEPT ![p] = "L45"]
  /\ UNCHANGED <<new_dict, data, calls, cur, hist>>

\* line 45, json.dump(data, f, indent=4): the buffer of f is flushed
\* before the dump is complete, up to token n
L45Flush(p) ==
  /\ pc[p] = "L45"
  /\ UNCHANGED pvars
  /\ \E n \in (woff[p] + 1)..(Len(Output(p)) - 1) :
       /\ n <= MaxFlush
       /\ Store(Opened(p),
                File(WriteAt(At(Opened(p)).text, woff[p],
                             SubSeq(Output(p), woff[p] + 1, n))))
       /\ woff' = [woff EXCEPT ![p] = n]
  /\ UNCHANGED <<pc, new_dict, data, calls, cur, hist>>

\* line 45: the dump is complete and the with block closes f
L45(p) ==
  /\ pc[p] = "L45"
  /\ UNCHANGED pvars
  /\ Store(Opened(p),
           File(WriteAt(At(Opened(p)).text, woff[p],
                        SubSeq(Output(p), woff[p] + 1, Len(Output(p))))))
  /\ Return(p, "ok")
  /\ stale' = [q \in Procs |->
                IF q # p /\ pc[q] \in {"L41", "L44", "L45"} THEN TRUE
                ELSE stale[q]]
  /\ UNCHANGED <<new_dict, cur, init, overlapped>>

\* The whole call run with no other step in between: the file it leaves.
Merge(f, upd) ==
  LET f1 == IF ~f.exists THEN File(WriteAt(<<>>, 0, BootOutput)) ELSE f
      v == Loads(f1.text)
      d == IF v = DecodeError THEN v ELSE Update(v, upd)
  IN IF v = DecodeError \/ d = TypeError THEN f1
     ELSE File(WriteAt(<<>>, 0, Dumps(d, Indent)))

Step(p) ==
  \/ L34(p)
  \/ L35(p)
  \/ L36(p)
  \/ L38(p)
  \/ L41(p)
  \/ L44(p)
  \/ L45Flush(p)
  \/ L45(p)

\* the pipelines are run one at a time
Next ==
  \/ \E upd \in Updates :
       Len(calls) < MaxCalls /\ Call(1, upd) /\ UNCHANGED pvars
  \/ Step(1)

Spec == Init /\ [][Next]_vars

\* two processes run pipelines with no serialization
NextConc ==
  \E p \in Procs :
    \/ \E upd \in ConcUpdates :
         Len(calls) < MaxConcCalls /\ Call(p, upd) /\ UNCHANGED pvars
    \/ Step(p)

SpecConc == InitConc /\ [][NextConc]_vars

\* ------------------------------------------------------------- main blocks

\* One statement of a main block: reading the raw data, the pipeline
\* function, an export of DATA or of the frame, the key-number function.
Read == [op |-> "read", file |-> "", of |-> ""]

Pipeline == [op |-> "pipeline", file |-> "", of |-> ""]

Export(file, of) == [op |-> "export", file |-> file, of |-> of]

KeyNumbers == [op |-> "key_numbers", file |-> Path, of |-> "frame"]

\* the key numbers exported before the CSV
DemandMainMergeFirst ==
  << Read, Pipeline, KeyNumbers,
     Export("vaccine_demand_by_region_year.csv", "frame") >>

\* vaccine_demand.py, lines 302 to 314
DemandMain ==
  << Read, Pipeline, Export("vaccine_demand_by_region_year.csv", "frame"),
     KeyNumbers >>

\* gavi_supply.py, lines 283 to 296
GaviMain ==
  << Read, Export("gavi_vaccine_supply.xlsx", "DATA"), Pipeline, KeyNumbers >>

\* who_mi4a_data.py, lines 214 to 227
WhoMain ==
  << Read, Pipeline, KeyNumbers, Export("african_vaccine_supply.csv", "frame") >>

Mains == {"vaccine_demand", "gavi_supply", "who_mi4a_data"}

Program(m) ==
  CASE m = "vaccine_demand" -> DemandMain
    [] m = "gavi_supply" -> GaviMain
    [] m = "who_mi4a_data" -> WhoMain

\* what the block read from the raw data folder
RawData(m) ==
  CASE m = "vaccine_demand" -> input.demand
    [] m = "gavi_supply" -> AsFloats(input.gavi)
    [] m = "who_mi4a_data" -> input.who

\* the pipeline function of the block applied to DATA
PipelineOf(m, raw) ==
  CASE m = "vaccine_demand" ->
         vaccine_dose_demand_by_country_year_pipeline(raw)
    [] m = "gavi_supply" ->
         share_of_gavi_vaccine_supply_to_six_transitioning_countries_pipeline(raw)
    [] m = "who_mi4a_data" -> vaccine_supply_pipeline(raw)

\* the dict the key-number function of the block passes on
KeyNumbersOf(m, fr) ==
  CASE m = "vaccine_demand" -> vaccine_demand_key_numbers(fr)
    [] m = "gavi_supply" -> gavi_supply_key_number(fr)
    [] m = "who_mi4a_data" -> supply_key_numbers(fr)

Running == main \in Mains

ThisRun == runs[Len(runs)]

\* the statement that runs next, if the block has one left
Stmt ==
  IF Running /\ line <= Len(Program(main)) THEN Program(main)[line]
  ELSE [op |-> "none", file |-> "", of |-> ""]

\* the steps of a run that call update_key_number
Merges(r) == SelectSeq(r.steps, LAMBDA st : st.op = "key_numbers")

\* the call the block made raised
Raised ==
  /\ Running
  /\ Merges(ThisRun) # <<>>
  /\ pc[1] = "idle"
  /\ calls[Len(calls)].res # "ok"

\* the block is between two of its statements
Ready == Running /\ pc[1] = "idle" /\ ~Raised

\* history: the run wrote an output; call is the index in calls of the
\* call that wrote it, 0 for an export
Logged(st, call) ==
  runs' = [runs EXCEPT ![Len(runs)].steps =
             Append(@, [op |-> st.op, file |-> st.file, call |-> call])]

\* python -m scripts.<m>: the main block of module m starts
Start(m) ==
  /\ main = "none"
  /\ Len(runs) < MaxRuns
  /\ main' = m
  /\ line' = 1
  /\ DATA' = <<>>
  /\ frame' = <<>>
  /\ runs' = Append(runs, [main |-> m, steps |-> <<>>, res |-> "running"])
  /\ UNCHANGED <<input, written>>
  /\ UNCHANGED uvars

\* DATA = read_vaccine_almanac_data() / load_gavi_data(..) / import_who_data()
ReadData ==
  /\ Ready
  /\ Stmt.op = "read"
  /\ DATA' = RawData(main)
  /\ line' = line + 1
  /\ UNCHANGED <<input, main, frame, runs, written>>
  /\ UNCHANGED uvars

\* the pipeline function is applied to DATA
RunPipeline ==
  /\ Ready
  /\ Stmt.op = "pipeline"
  /\ frame' = PipelineOf(main, DATA)
  /\ line' = line + 1
  /\ UNCHANGED <<input, main, DATA, runs, written>>
  /\ UNCHANGED uvars

\* to_csv / to_excel into the output folder
ExportFile ==
  /\ Ready
  /\ Stmt.op = "export"
  /\ written' = [written EXCEPT ![Stmt.file] =
                   [exists |-> TRUE,
                    rows |-> IF Stmt.of = "DATA" THEN DATA ELSE frame]]
  /\ Logged(Stmt, 0)
  /\ line' = line + 1
  /\ UNCHANGED <<input, main, DATA, frame>>
  /\ UNCHANGED uvars

\* the key-number function builds its dict and calls update_key_number
ExportKeyNumbers ==
  /\ Ready
  /\ Stmt.op = "key_numbers"
  /\ Call(1, KeyNumbersOf(main, frame))
  /\ Logged(Stmt, Len(calls) + 1)
  /\ line' = line + 1
  /\ UNCHANGED <<input, main, DATA, frame, written>>

\* the exception of update_key_number ends the run
Abort ==
  /\ Raised
  /\ runs' = [runs EXCEPT ![Len(runs)].res = "raised"]
  /\ main' = "none"
  /\ line' = 0
  /\ UNCHANGED <<input, DATA, frame, written>>
  /\ UNCHANGED uvars

\* the block has run its last statement
Finish ==
  /\ Ready
  /\ line > Len(Program(main))
  /\ runs' = [runs EXCEPT ![Len(runs)].res = "ok"]
  /\ main' = "none"
  /\ line' = 0
  /\ UNCHANGED <<input, DATA, frame, written>>
  /\ UNCHANGED uvars

\* A document another tool left at path: an indicator of an earlier run
\* and a key no pipeline writes.
Earlier ==
  File(Dumps(DictOf(<< <<"africa_share_of_global_vaccine_demand_2030",
                         PyStr("10%")>>,
                       <<"a", PyStr("12%")>> >>), Indent))

PipeInitFiles ==
  { Absent,
    Earlier,
    File(<<LB, NL(Indent), STR("a"), COLON>>),
    File(<<LSQ, RSQ>>) }

InitPipe ==
  /\ StartFile(PipeInitFiles)
  /\ NoRun
  /\ input \in Inputs

\* the pipelines are run one at a time, in any order, any number of times
NextPipe ==
  \/ \E m \in Mains : Start(m)
  \/ ReadData
  \/ RunPipeline
  \/ ExportFile
  \/ ExportKeyNumbers
  \/ Step(1)
  \/ Abort
  \/ Finish

SpecPipe == InitPipe /\ [][NextPipe]_vars

\* ---------------------------------------------------------- the gavi share

\* the function moves from one statement to the next
Goes(at, next) ==
  /\ main = "share_pipeline"
  /\ line = at
  /\ line' = next
  /\ UNCHANGED <<input, main, DATA, runs, written>>
  /\ UNCHANGED uvars

\* line 257: data = remove_non_vaccines(data)
G257 == Goes(257, 260) /\ frame' = remove_non_vaccines(frame)

\* line 260: data = data.loc[lambda d: d.gavi_non_gavi == "GAVI"]
G260 == Goes(260, 263) /\ frame' = FullyGaviFunded(frame)

\* line 263: data = data.groupby(["country"])[..].sum().reset_index()
G263 == Goes(263, 266) /\ frame' = GroupByCountry(frame)

\* line 266: data = add_share_of_total_column(data)
G266 == Goes(266, 269) /\ frame' = add_share_of_total_column(frame)

\* line 269: transitioning_countries = filter_for_six_..(data)
G269 == Goes(269, 272) /\ frame' = filter_for_six_transitioning_countries(frame)

SumOfShares(df) == Sum(df, "total_quantity_in_doses_share_of_total")

\* line 272: return transitioning_countries[..].sum()
G272 == Goes(272, 0) /\ frame' = SumOfShares(frame)

\* the function is called with a table of shipments
InitGavi ==
  /\ StartFile({Absent})
  /\ input = NoInput
  /\ runs = <<>>
  /\ written = [f \in OutputFiles |-> NotWritten]
  /\ main = "share_pipeline"
  /\ line = 257
  /\ DATA \in Tables
  /\ frame = AsFloats(DATA)

NextGavi == G257 \/ G260 \/ G263 \/ G266 \/ G269 \/ G272

SpecGavi == InitGavi /\ [][NextGavi]_vars

\* ------------------------------------------------------------------ claims

N == Len(calls)

AllIdle == \A p \in Procs : pc[p] = "idle"

\* the latest call, and the one before it
LastCall == calls[N]

PrevCall == calls[N - 1]

\* the file as a record, and the value its text denotes
Now == [exists |-> exists, text |-> text]

Doc == Loads(text)

IsMapping(f) == f.exists /\ Loads(f.text).ty = "dict"

MapOf(f) == AsMap(Loads(f.text).items)

KeysOf(f) == KeySet(Loads(f.text).items)

\* C1 (union/override): when path held a JSON object D1 before a call
\* update_key_number(path, U), then once the call has returned it has
\* returned normally and the document has exactly the keys of D1 and of U,
\* every key of U maps to U's value and every other key of D1 to D1's.
C1_UnionOverride ==
  (N > 0 /\ AllIdle /\ IsMapping(LastCall.pre)) =>
    LET D1 == MapOf(LastCall.pre)
        U == AsMap(LastCall.upd)
    IN /\ LastCall.res = "ok"
       /\ IsMapping(Now)
       /\ DOMAIN MapOf(Now) = DOMAIN D1 \cup DOMAIN U
       /\ \A k \in DOMAIN U : MapOf(Now)[k] = U[k]
       /\ \A k \in DOMAIN D1 \ DOMAIN U : MapOf(Now)[k] = D1[k]

\* a call has returned that overwrote the value of one key of D1, added a
\* key and left a key of D1 alone
C1_Witness ==
  /\ N > 0 /\ AllIdle /\ IsMapping(LastCall.pre)
  /\ LET D1 == MapOf(LastCall.pre)
         U == AsMap(LastCall.upd)
     IN /\ \E k \in DOMAIN U \cap DOMAIN D1 : U[k] # D1[k]
        /\ DOMAIN D1 \ DOMAIN U # {}
        /\ IsMapping(Now)
        /\ DOMAIN MapOf(Now) = Keys

\* C2 (bootstrap): when no file exists at path the call itself creates it
\* holding the empty object before it reads it, and for a non-empty U the
\* document after the call is U exactly.
C2_Bootstrap ==
  (N > 0 /\ ~LastCall.pre.exists) =>
    /\ pc[1] = "L38" => (exists /\ text = <<LB, RB>>)
    /\ (AllIdle /\ LastCall.upd # <<>>) =>
         /\ LastCall.res = "ok"
         /\ IsMapping(Now)
         /\ MapOf(Now) = AsMap(LastCall.upd)

\* a call with two indicators has returned that found no file at path
C2_Witness ==
  /\ N > 0 /\ AllIdle
  /\ ~LastCall.pre.exists
  /\ Len(LastCall.upd) = 2
  /\ LastCall.res = "ok"
  /\ exists

\* the mapping that holds, for every key of the first i calls, the value
\* given by the latest of them that has the key
RECURSIVE LastWritten(_)
LastWritten(i) ==
  IF i = 0 THEN AsMap(<<>>)
  ELSE LET before == LastWritten(i - 1)
           U == AsMap(calls[i].upd)
       IN [k \in DOMAIN before \cup DOMAIN U |->
             IF k \in DOMAIN U THEN U[k] ELSE before[k]]

StartsEmpty == ~init.exists \/ Loads(init.text) = EmptyDict

\* C3 (last writer wins): from an absent or empty document, after any
\* sequence of calls run one at a time every call has returned normally
\* and the document maps each key of any call to the value of the latest
\* call that has it, and has no other key.
C3_LastWriterWins ==
  (StartsEmpty /\ N > 0 /\ AllIdle) =>
    /\ \A i \in 1..N : calls[i].res = "ok"
    /\ IsMapping(Now)
    /\ MapOf(Now) = LastWritten(N)

\* the scenario of the specification: from {} the merges {a: x}, {b: y},
\* {a: z} with z # x have left {a: z, b: y}
C3_Witness ==
  /\ init = File(<<LB, RB>>)
  /\ N = 3 /\ AllIdle
  /\ KeySeq(calls[1].upd) = <<"a">>
  /\ KeySeq(calls[2].upd) = <<"b">>
  /\ KeySeq(calls[3].upd) = <<"a">>
  /\ calls[1].upd # calls[3].upd
  /\ IsMapping(Now)
  /\ MapOf(Now) = AsMap(calls[3].upd \o calls[2].upd)

\* C4 (idempotence): whatever path held before (nothing, or any valid
\* JSON), when update_key_number(path, U) is called twice in succession the
\* file after the second call is identical to the file after the first.
C4_Idempotent ==
  (N >= 2 /\ AllIdle /\ LastCall.upd = PrevCall.upd
     /\ (~PrevCall.pre.exists \/ Loads(PrevCall.pre.text) # DecodeError)) =>
    Now = LastCall.pre

\* two successive calls with the same non-empty U have returned normally,
\* the first of which changed the file
C4_Witness ==
  /\ N >= 2 /\ AllIdle
  /\ LastCall.upd = PrevCall.upd
  /\ Len(LastCall.upd) = 2
  /\ PrevCall.pre.exists
  /\ PrevCall.pre # LastCall.pre
  /\ PrevCall.res = "ok" /\ LastCall.res = "ok"

DisjointKeys(u1, u2) == KeySet(u1) \cap KeySet(u2) = {}

\* the file left by the last two calls had they been made in the other
\* order, from the file the first of them found
Swapped == Merge(Merge(PrevCall.pre, LastCall.upd), PrevCall.upd)

StartsAsMapping(f) == ~f.exists \/ IsMapping(f)

\* C5 (order independence): from any starting document, merging U1 then U2
\* with disjoint key sets leaves the same key-to-value mapping as merging
\* U2 then U1.
C5_OrderIndependent ==
  (N >= 2 /\ AllIdle /\ StartsAsMapping(PrevCall.pre)
     /\ DisjointKeys(PrevCall.upd, LastCall.upd)) =>
    /\ IsMapping(Now)
    /\ IsMapping(Swapped)
    /\ MapOf(Now) = MapOf(Swapped)

\* two merges with disjoint non-empty key sets have returned normally, and
\* the other order would have left another text in the file
C5_Witness ==
  /\ N >= 2 /\ AllIdle
  /\ StartsAsMapping(PrevCall.pre)
  /\ DisjointKeys(PrevCall.upd, LastCall.upd)
  /\ PrevCall.upd # <<>> /\ LastCall.upd # <<>>
  /\ PrevCall.res = "ok" /\ LastCall.res = "ok"
  /\ Now # Swapped

\* the sequence of keys of the document in a file
KeyOrder(f) == KeySeq(Loads(f.text).items)

\* C6 as claimed (deterministic key order): two merge histories that end
\* in the same mapping leave the same sequence of keys in the file; here
\* the two histories are the last two merges in either order.
C6_OrderBySetOnly ==
  (N >= 2 /\ AllIdle /\ StartsAsMapping(PrevCall.pre)
     /\ IsMapping(Now) /\ IsMapping(Swapped)
     /\ MapOf(Now) = MapOf(Swapped)) =>
    KeyOrder(Now) = KeyOrder(Swapped)

\* the keys of upd that d does not have, in the iteration order of upd
NewKeys(upd, d) ==
  SelectSeq(KeySeq(upd), LAMBDA k : ~HasKey(d.items, k))

\* the document a call found: the empty one when it found no file
Found(c) == IF c.pre.exists THEN Loads(c.pre.text) ELSE EmptyDict

\* C6 as amended (key order is insertion order): after a merge that
\* returned normally the file holds the keys the document had before, in
\* the order they had, followed by the new keys of new_dict in its
\* iteration order.
C6_InsertionOrder ==
  (N > 0 /\ AllIdle /\ LastCall.res = "ok" /\ Found(LastCall).ty = "dict") =>
    /\ IsMapping(Now)
    /\ KeyOrder(Now) =
         KeySeq(Found(LastCall).items) \o NewKeys(LastCall.upd, Found(LastCall))

\* a merge has overwritten the key b of a document that held b alone and
\* added the key a, which it names first: the file holds b before a
C6_Witness ==
  /\ N > 0 /\ AllIdle /\ LastCall.res = "ok"
  /\ LastCall.pre.exists
  /\ KeyOrder(LastCall.pre) = <<"b">>
  /\ KeySeq(LastCall.upd) = <<"a", "b">>
  /\ KeyOrder(Now) = <<"b", "a">>

\* C7 (corruption handling): when path holds text that is not JSON the
\* call raises JSONDecodeError and the file is at no point written; and
\* whatever path held, until the final write begins (line 44 has not run),
\* and after any call that raised, the file is as the call found it.
C7_CorruptionLeftIntact ==
  (N > 0 /\ LastCall.pre.exists) =>
    /\ Loads(LastCall.pre.text) = DecodeError =>
         /\ pc[1] \in {"idle", "L34", "L38"}
         /\ Now = LastCall.pre
         /\ AllIdle => LastCall.res = "JSONDecodeError"
    /\ (pc[1] \in {"L34", "L35", "L36", "L38", "L41", "L44"}
          \/ (AllIdle /\ LastCall.res # "ok")) =>
         Now = LastCall.pre

\* a call on a file cut short has raised JSONDecodeError and the file is
\* still the same text, not the empty object
C7_Witness ==
  /\ N > 0 /\ AllIdle
  /\ LastCall.pre = File(<<LB, NL(Indent), STR("a"), COLON>>)
  /\ LastCall.upd # <<>>
  /\ LastCall.res = "JSONDecodeError"
  /\ Now = LastCall.pre

\* process p has made a call, and its latest call returned normally
Returned(p) == cur[p] > 0 /\ calls[cur[p]].res = "ok"

\* the document lacks a key that p's latest call wrote
Lost(p) ==
  \E k \in KeySet(calls[cur[p]].upd) :
    ~(IsMapping(Now) /\ HasKey(Doc.items, k))

\* C8 (lost update): when both processes have returned normally and the
\* document lacks a key written by one of them, their calls were not
\* serialized: one began while another was running.  Serialized calls
\* never lose an update.
C8_LostOnlyIfOverlapped ==
  (AllIdle /\ (\A p \in Procs : Returned(p)) /\ (\E p \in Procs : Lost(p)))
    => overlapped

\* both calls have returned normally and the document, a valid mapping,
\* holds the keys of q and lacks a key of p: q wrote what it had read
\* before p's write landed
C8_Witness ==
  /\ AllIdle
  /\ \A p \in Procs : Returned(p)
  /\ IsMapping(Now)
  /\ \E p, q \in Procs :
       /\ p # q
       /\ Lost(p)
       /\ ~Lost(q)
       /\ stale[q]

\* the file was complete before the first call: absent, or valid JSON
StartsComplete == ~init.exists \/ Loads(init.text) # DecodeError

\* C9 as claimed (no partial document observable): at every point during
\* or after a merge the file, when it exists, holds a complete document,
\* never an empty or truncated text.
C9_NeverPartial ==
  (StartsComplete /\ N > 0 /\ exists) => Loads(text) # DecodeError

\* C9 as amended: with merges run one at a time the file is incomplete
\* only between an open for writing (line 35 or 44), which empties it, and
\* the close of that write (line 36 or 45); in between it is empty or a
\* proper prefix of the new text.  At every other point it is as the call
\* found it, or the bootstrapped empty object, or, once the call has
\* returned normally, the complete new document.
C9_PartialOnlyDuringWrite ==
  (StartsComplete /\ N > 0) =>
    /\ (exists /\ Loads(text) = DecodeError) => pc[1] \in {"L36", "L45"}
    /\ pc[1] = "L36" => text = <<>>
    /\ pc[1] = "L45" =>
         /\ woff[1] < Len(Output(1))
         /\ text = SubSeq(Output(1), 1, woff[1])
    /\ pc[1] \notin {"L36", "L45"} =>
         \/ Now = LastCall.pre
         \/ (~LastCall.pre.exists /\ Now = File(<<LB, RB>>))
         \/ /\ AllIdle /\ LastCall.res = "ok"
            /\ Now = Merge(LastCall.pre, LastCall.upd)

\* the final write of a merge into a non-empty document is under way and
\* the file holds a truncated text
C9_Witness ==
  /\ StartsComplete /\ N > 0
  /\ pc[1] = "L45"
  /\ IsMapping(LastCall.pre)
  /\ KeysOf(LastCall.pre) # {}
  /\ text # <<>>
  /\ Loads(text) = DecodeError

\* C10 (valid mapping): from an absent path, whenever no merge is in
\* progress the file, if it exists, holds a JSON object.
C10_ValidMapping ==
  (~init.exists /\ AllIdle /\ exists) => Loads(text).ty = "dict"

\* from an absent path two merges have left a document with both keys
C10_Witness ==
  /\ ~init.exists /\ AllIdle
  /\ N >= 2
  /\ IsMapping(Now)
  /\ KeysOf(Now) = Keys

\* C11 as claimed (top-level object only): whatever valid JSON the file
\* held and whatever mapping was passed, after a call that returned
\* normally the document at path is a JSON object.
C11_TopLevelObject ==
  (StartsComplete /\ N > 0 /\ AllIdle /\ LastCall.res = "ok") =>
    IsMapping(Now)

\* C12 (empty updates do not corrupt): after update_key_number(path, {})
\* has returned, a file that held valid JSON holds the same value (for an
\* object, the same key-to-value mapping), unless the call raised, and
\* then the file is untouched; an absent path holds the empty object.
C12_EmptyUpdateKeeps ==
  (N > 0 /\ AllIdle /\ LastCall.upd = <<>>) =>
    /\ ~LastCall.pre.exists => (exists /\ Doc = EmptyDict)
    /\ (LastCall.pre.exists /\ Loads(LastCall.pre.text) # DecodeError) =>
         /\ exists
         /\ LastCall.res # "ok" => Now = LastCall.pre
         /\ Doc.ty = Loads(LastCall.pre.text).ty
         /\ Doc.lit = Loads(LastCall.pre.text).lit
         /\ AsMap(Doc.items) = MapOf(LastCall.pre)

\* a call with the empty mapping has returned on a file that held two
\* indicators in another layout: the text changed, the mapping did not
C12_Witness ==
  /\ N > 0 /\ AllIdle
  /\ LastCall.upd = <<>>
  /\ LastCall.res = "ok"
  /\ IsMapping(LastCall.pre)
  /\ KeysOf(LastCall.pre) = Keys
  /\ Now # LastCall.pre
  /\ MapOf(Now) = MapOf(LastCall.pre)

\* C13 (frame): a call reads and overwrites the file at path only: every
\* other file is as it was, and the mapping the caller passed is, during
\* and after the call, the mapping it passed.
C13_Frame ==
  /\ other = Exported
  /\ \A p \in Procs : cur[p] > 0 => new_dict[p] = calls[cur[p]].upd

\* a call with two indicators has rewritten the file at path and returned
C13_Witness ==
  /\ N > 0 /\ AllIdle
  /\ LastCall.res = "ok"
  /\ Len(LastCall.upd) = 2
  /\ Now # LastCall.pre
  /\ new_dict[1] = LastCall.upd
  /\ other = Exported

\* the file as call i left it (calls are run one at a time)
After(i) == IF i < N THEN calls[i + 1].pre ELSE Now

Completed(i) == calls[i].res # "running"

\* C14 (never deleted, never shrinks): with merges run one at a time, a
\* file that existed before a call exists ever after, and once a merge
\* has left a document, every later merge leaves a document that has all
\* the keys of that one.
C14_NeverShrinks ==
  /\ init.exists => exists
  /\ \A i \in 1..N : (calls[i].pre.exists \/ Completed(i)) => exists
  /\ \A i, j \in 1..N :
       (i <= j /\ Completed(j) /\ IsMapping(After(i))) =>
         /\ calls[j].res = "ok"
         /\ IsMapping(After(j))
         /\ KeysOf(After(i)) \subseteq KeysOf(After(j))

\* three merges have returned; the first left one key, which the third,
\* naming the other key only, still left in the document
C14_Witness ==
  /\ N = 3 /\ AllIdle
  /\ IsMapping(After(1))
  /\ KeysOf(After(1)) = {"a"}
  /\ KeySeq(calls[3].upd) = <<"b">>
  /\ IsMapping(Now)
  /\ KeysOf(Now) = Keys

\* ------------------------------------------------------------------ C15

LastStep(r) == r.steps[Len(r.steps)]

Ended(r) == r.res # "running"

\* the dict a run passed to update_key_number
Passed(r) == calls[Merges(r)[1].call].upd

\* C15 as stated: every run that ended without an exception called
\* update_key_number exactly once, with at least one indicator, and wrote
\* no other output after that call.
C15_MergeIsTerminal ==
  \A i \in 1..Len(runs) :
    runs[i].res = "ok" =>
      /\ Len(Merges(runs[i])) = 1
      /\ Len(Passed(runs[i])) >= 1
      /\ LastStep(runs[i]).op = "key_numbers"

\* C15, amended: every run that ended called update_key_number exactly
\* once, on key_numbers.json, with at least one indicator; in the vaccine
\* demand and Gavi supply runs that call is the last output, while the WHO
\* supply run exports african_vaccine_supply.csv after it.
C15_OneMergePerRun ==
  \A i \in 1..Len(runs) :
    Ended(runs[i]) =>
      /\ Len(Merges(runs[i])) = 1
      /\ Merges(runs[i])[1].file = Path
      /\ Len(Passed(runs[i])) >= 1
      /\ (runs[i].res = "ok" /\ runs[i].main # "who_mi4a_data") =>
           LastStep(runs[i]).op = "key_numbers"
      /\ (runs[i].res = "ok" /\ runs[i].main = "who_mi4a_data") =>
           /\ Len(runs[i].steps) = 2
           /\ runs[i].steps[1].op = "key_numbers"
           /\ runs[i].steps[2].op = "export"
           /\ runs[i].steps[2].file = "african_vaccine_supply.csv"

\* every pipeline has run to its end: the WHO supply run wrote its two
\* outputs
C15_Witness ==
  /\ main = "none"
  /\ \A m \in Mains : \E i \in 1..Len(runs) :
        runs[i].main = m /\ runs[i].res = "ok"
  /\ \E i \in 1..Len(runs) : runs[i].res = "ok" /\ Len(runs[i].steps) = 2

\* ------------------------------------------------------------------ C16

\* the dict a run of block m passes on, computed from the raw data
Indicators(m) == KeyNumbersOf(m, PipelineOf(m, RawData(m)))

IndicatorKeys == UNION {KeySet(Indicators(m)) : m \in Mains}

HasRun(m) == \E i \in 1..Len(runs) : runs[i].main = m

\* the document after one run of each pipeline in the order demand,
\* Gavi supply, WHO supply, with no step of another run in between
InFixedOrder ==
  Merge(Merge(Merge(init, Indicators("vaccine_demand")),
              Indicators("gavi_supply")),
        Indicators("who_mi4a_data"))

\* C16: the key sets of the three pipelines are pairwise disjoint, and
\* once each pipeline has run at least once on the same raw data from a
\* starting document that is absent or a mapping, in whatever order and
\* however many times, key_numbers.json holds the same key-to-value
\* mapping, with all 11 indicators.
C16_NoExecutionOrder ==
  (main = "none" /\ StartsAsMapping(init) /\ \A m \in Mains : HasRun(m)) =>
    /\ \A m1, m2 \in Mains :
         m1 # m2 => DisjointKeys(Indicators(m1), Indicators(m2))
    /\ Cardinality(IndicatorKeys) = 11
    /\ \A i \in 1..Len(runs) : runs[i].res = "ok"
    /\ IsMapping(Now)
    /\ MapOf(Now) = MapOf(InFixedOrder)
    /\ IndicatorKeys \subseteq KeysOf(Now)
    /\ KeysOf(Now) = KeysOf(init) \cup IndicatorKeys

\* the three pipelines have run, WHO supply first and vaccine demand
\* twice, on a document that held an indicator of an earlier run
C16_Witness ==
  /\ main = "none"
  /\ init = Earlier
  /\ Len(runs) = 4
  /\ runs[1].main = "who_mi4a_data"
  /\ runs[2].main = "vaccine_demand"
  /\ runs[3].main = "gavi_supply"
  /\ runs[4].main = "vaccine_demand"
  /\ runs[4].res = "ok"
  /\ MapOf(Now) # MapOf(init)

\* ------------------------------------------------------------------ C17

AllStr(items) == \A j \in 1..Len(items) : items[j][2].ty = "str"

GaviReturned == main = "share_pipeline" /\ line = 0

\* the rows of a table that are vaccines and are marked GAVI
Counted(t) ==
  SelectSeq(t, LAMBDA r : r.product \notin non_vaccines
                            /\ r.gavi_non_gavi = "GAVI")

RECURSIVE DosesFrom(_, _)
DosesFrom(t, i) == IF i > Len(t) THEN 0 ELSE t[i].doses + DosesFrom(t, i + 1)

\* the doses of the counted rows of the six transitioning countries
Numerator ==
  DosesFrom(SelectSeq(Counted(DATA), LAMBDA r : r.country \in countries), 1)

\* the doses of the counted rows of every country
Denominator == DosesFrom(Counted(DATA), 1)

Abs(x) == IF x < 0 THEN -x ELSE x

=============================================================================
